---- MODULE Spec2Model ----
(***************************************************************************)
(* PeerRequestCache (chia/wallet/util/peer_request_cache.py): seven LRU    *)
(* caches of a wallet's sync session, the truncation clear_after_height    *)
(* that prunes them on a reorg, and the predicate                          *)
(* can_use_peer_request_cache.                                             *)
(***************************************************************************)
EXTENDS Integers, Sequences, FiniteSets, TLC

(***************************************************************************)
(* Bounds.  The capacities are those of __init__ (100 and 1000) scaled so  *)
(* that a cache can fill up and evict within the explored inputs.          *)
(***************************************************************************)
MaxHeight == 1
MaxTimestamp == 1
SmallCapacity == 2
LargeCapacity == 2

\* Python's None, kept apart from every uint32 / uint64.
None == -1

Heights == 0..MaxHeight
\* The lowest and the highest height: what the add_* inputs are drawn from.
EdgeHeights == {0, MaxHeight}
OptHeights == {None} \cup EdgeHeights
Cutoffs == 0..MaxHeight
ForkHeights == {None} \cup Heights
Timestamps == 0..MaxTimestamp

(***************************************************************************)
(* chia.util.lru_cache.LRUCache: an OrderedDict, least recently used       *)
(* first, and a capacity.  An entry is <<key, value>>.                     *)
(***************************************************************************)
LRUCache(capacity) == [cache |-> <<>>, capacity |-> capacity]

HasKey(c, key) == \E i \in 1..Len(c.cache) : c.cache[i][1] = key

IndexOf(c, key) == CHOOSE i \in 1..Len(c.cache) : c.cache[i][1] = key

Keys(c) == {c.cache[i][1] : i \in 1..Len(c.cache)}

\* self.cache[key]; only used where key is in the cache.
Lookup(c, key) == c.cache[IndexOf(c, key)][2]

RemoveAt(s, i) == SubSeq(s, 1, i - 1) \o SubSeq(s, i + 1, Len(s))

\* OrderedDict.move_to_end(key)
MoveToEnd(c, key) ==
    [c EXCEPT !.cache = Append(RemoveAt(c.cache, IndexOf(c, key)), c.cache[IndexOf(c, key)])]

\* LRUCache.get: the value returned (None for a missing key) ...
LRUGetValue(c, key) == IF HasKey(c, key) THEN Lookup(c, key) ELSE None

\* ... and the cache it leaves: a hit becomes the most recently used entry.
LRUGetCache(c, key) == IF HasKey(c, key) THEN MoveToEnd(c, key) ELSE c

\* LRUCache.put: assign in place, move to the end, evict the oldest when over capacity.
LRUPut(c, key, value) ==
    LET assigned == IF HasKey(c, key)
                    THEN [c EXCEPT !.cache[IndexOf(c, key)] = <<key, value>>]
                    ELSE [c EXCEPT !.cache = Append(c.cache, <<key, value>>)]
        moved == MoveToEnd(assigned, key)
    IN IF Len(moved.cache) > moved.capacity
       THEN [moved EXCEPT !.cache = Tail(moved.cache)]
       ELSE moved

\* The loop of clear_after_height: put the kept items, oldest first, into new.
RECURSIVE PutAll(_, _)
PutAll(new, items) ==
    IF items = <<>> THEN new
    ELSE PutAll(LRUPut(new, Head(items)[1], Head(items)[2]), Tail(items))

\* What the accessors observe: the mapping, without the recency order.
Contents(c) == {c.cache[i] : i \in 1..Len(c.cache)}

(***************************************************************************)
(* Hashing.  std_hash is collision resistant: an injection on byte strings *)
(* (every byte of the model is below 8, so the strings are read in radix   *)
(* 8 behind a leading 1).                                                  *)
(***************************************************************************)
RECURSIVE std_hash(_)
std_hash(b) == IF b = <<>> THEN 1 ELSE std_hash(SubSeq(b, 1, Len(b) - 1)) * 8 + b[Len(b)]

\* Streamable serialisation of an Optional[uint32]: a presence byte, then the value.
OptionalBytes(h) == IF h = None THEN <<0>> ELSE <<1, h>>

\* CoinState.get_hash(): the hash of the serialised (coin, spent_height, created_height).
get_hash(coin_state) ==
    std_hash(<<coin_state.coin>> \o OptionalBytes(coin_state.spent_height)
                                 \o OptionalBytes(coin_state.created_height))

\* Mutant: the height is hashed with the three fields.
_calculate_sig_hash_from_block_WithHeight(block) ==
    std_hash(block.plot_public_key \o block.foliage_block_data
                                   \o block.foliage_block_data_signature
                                   \o <<block.height>>)

_calculate_sig_hash_from_block(block) ==
    std_hash(block.plot_public_key \o block.foliage_block_data
                                   \o block.foliage_block_data_signature)

(***************************************************************************)
(* Inputs.                                                                 *)
(***************************************************************************)
CoinStates == [coin : {7}, created_height : OptHeights, spent_height : OptHeights]

\* A HeaderBlock: foliage_transaction_block is None or (its) timestamp.
HeaderBlock(h, tx, ftb, pk, data, sig) ==
    [height |-> h, is_transaction_block |-> tx, foliage_transaction_block |-> ftb,
     plot_public_key |-> pk, foliage_block_data |-> data,
     foliage_block_data_signature |-> sig]

\* Blocks given to add_to_blocks: plain (without and with a
\* foliage_transaction_block), transaction, and a transaction block that lacks its
\* foliage_transaction_block.
Blocks ==
    {HeaderBlock(h, FALSE, None, <<1>>, <<1>>, <<1>>) : h \in EdgeHeights}
    \cup {HeaderBlock(h, FALSE, t, <<1>>, <<1>>, <<1>>) : h \in EdgeHeights, t \in Timestamps}
    \cup {HeaderBlock(h, TRUE, t, <<1>>, <<1>>, <<1>>) : h \in EdgeHeights, t \in Timestamps}
    \cup {HeaderBlock(h, TRUE, None, <<1>>, <<1>>, <<1>>) : h \in EdgeHeights}

\* Blocks given to the signature cache: the three signed fields vary.
SigBlocks ==
    {HeaderBlock(h, FALSE, None, <<pk>>, <<1>>, <<sig>>) :
        h \in EdgeHeights, pk \in {1, 2}, sig \in {1, 2}}

Ranges == EdgeHeights \X EdgeHeights
Tasks == {11, 12}
SesInfos == {21, 22}
RewardChainHashes == {31, 32}

VARIABLES _blocks, _block_requests, _ses_requests, _states_validated, _timestamps,
          _blocks_validated, _block_signatures_validated, last, first_timestamp,
          given_timestamps, added_heights, pc

caches == <<_blocks, _block_requests, _ses_requests, _states_validated, _timestamps,
            _blocks_validated, _block_signatures_validated>>
vars == <<_blocks, _block_requests, _ses_requests, _states_validated, _timestamps,
          _blocks_validated, _block_signatures_validated, last, first_timestamp,
          given_timestamps, added_heights, pc>>

\* The call just made, as its caller sees it: name, argument, result, whether it
\* raised, the keys it removed from each cache (by eviction or by truncation) and,
\* for a truncation that directly follows a truncation, the cutoff of that one.
Log(op, arg, ret, raised) ==
    last' = [op |-> op, arg |-> arg, ret |-> ret, raised |-> raised,
             prev_cutoff |-> IF op = "clear_after_height" /\ last.op = op
                             THEN last.arg ELSE None,
             dropped |-> [blocks |-> Keys(_blocks) \ Keys(_blocks'),
                          block_requests |-> Keys(_block_requests) \ Keys(_block_requests'),
                          ses_requests |-> Keys(_ses_requests) \ Keys(_ses_requests'),
                          states_validated |-> Keys(_states_validated) \ Keys(_states_validated'),
                          timestamps |-> Keys(_timestamps) \ Keys(_timestamps'),
                          blocks_validated |-> Keys(_blocks_validated) \ Keys(_blocks_validated'),
                          block_signatures_validated |->
                              Keys(_block_signatures_validated) \ Keys(_block_signatures_validated')]]

NothingDropped ==
    [blocks |-> {}, block_requests |-> {}, ses_requests |-> {}, states_validated |-> {},
     timestamps |-> {}, blocks_validated |-> {}, block_signatures_validated |-> {}]

\* The keys of BlocksValidated and BlockSignaturesValidated.
ValidatedKeys == RewardChainHashes \cup {_calculate_sig_hash_from_block(b) : b \in SigBlocks}

\* No clear_after_height call is under way.
NotRunning == [n |-> 0, height |-> None, dropped |-> NothingDropped]

\* __init__.  Beside the seven caches: given_timestamps[h] is the set of timestamps
\* add_to_blocks was given with transaction blocks of height h, added_heights[k] the
\* heights of the last two adds of the key k to BlocksValidated or
\* BlockSignaturesValidated, pc the position of a clear_after_height call under way
\* (how many caches it has replaced, its cutoff, what it has removed).
Init ==
    /\ _blocks = LRUCache(SmallCapacity)
    /\ _block_requests = LRUCache(SmallCapacity)
    /\ _ses_requests = LRUCache(SmallCapacity)
    /\ _states_validated = LRUCache(LargeCapacity)
    /\ _timestamps = LRUCache(LargeCapacity)
    /\ _blocks_validated = LRUCache(LargeCapacity)
    /\ _block_signatures_validated = LRUCache(LargeCapacity)
    /\ last = [op |-> "init", arg |-> None, ret |-> None, raised |-> FALSE,
               prev_cutoff |-> None, dropped |-> NothingDropped]
    /\ first_timestamp = [h \in Heights |-> None]
    /\ given_timestamps = [h \in Heights |-> {}]
    /\ added_heights = [k \in ValidatedKeys |-> <<>>]
    /\ pc = NotRunning

(***************************************************************************)
(* The accessors.  Every lookup goes through LRUCache.get, which makes the *)
(* entry it finds the most recently used one.                              *)
(***************************************************************************)
get_block(height) ==
    /\ _blocks' = LRUGetCache(_blocks, height)
    /\ UNCHANGED <<_block_requests, _ses_requests, _states_validated, _timestamps,
                   _blocks_validated, _block_signatures_validated>>
    /\ Log("get_block", height, LRUGetValue(_blocks, height), FALSE)


\* Mutant: last write wins.
RecordTimestamp_LastWriteWins(ts, header_block) ==
    LRUPut(LRUGetCache(ts, header_block.height), header_block.height,
           header_block.foliage_transaction_block)

\* The timestamps cache add_to_blocks leaves for a transaction block with a
\* foliage_transaction_block: looked up, and written only when nothing is there.
RecordTimestamp(ts, header_block) ==
    IF LRUGetValue(ts, header_block.height) = None
    THEN LRUPut(LRUGetCache(ts, header_block.height), header_block.height,
                header_block.foliage_transaction_block)
    ELSE LRUGetCache(ts, header_block.height)

\* Mutant: is_transaction_block is not tested, every block that carries a
\* foliage_transaction_block has its timestamp recorded.
add_to_blocks_AnyBlock(header_block) ==
    /\ _blocks' = LRUPut(_blocks, header_block.height, header_block)
    /\ _timestamps' =
           IF header_block.foliage_transaction_block # None
           THEN RecordTimestamp(_timestamps, header_block)
           ELSE _timestamps
    /\ UNCHANGED <<_block_requests, _ses_requests, _states_validated,
                   _blocks_validated, _block_signatures_validated>>
    /\ Log("add_to_blocks", header_block, None,
           header_block.is_transaction_block
               /\ header_block.foliage_transaction_block = None)

\* Mutant: the assert is missing, a transaction block without
\* foliage_transaction_block goes on to the timestamps.
add_to_blocks_NoAssert(header_block) ==
    /\ _blocks' = LRUPut(_blocks, header_block.height, header_block)
    /\ _timestamps' =
           IF header_block.is_transaction_block
           THEN RecordTimestamp(_timestamps, header_block)
           ELSE _timestamps
    /\ UNCHANGED <<_block_requests, _ses_requests, _states_validated,
                   _blocks_validated, _block_signatures_validated>>
    /\ Log("add_to_blocks", header_block, None, FALSE)

add_to_blocks(header_block) ==
    /\ _blocks' = LRUPut(_blocks, header_block.height, header_block)
    /\ _timestamps' =
           IF header_block.is_transaction_block
                  /\ header_block.foliage_transaction_block # None
           THEN RecordTimestamp(_timestamps, header_block)
           ELSE _timestamps
    /\ UNCHANGED <<_block_requests, _ses_requests, _states_validated,
                   _blocks_validated, _block_signatures_validated>>
    \* the assert fails for a transaction block without foliage_transaction_block,
    \* after the block was put
    /\ Log("add_to_blocks", header_block, None,
           header_block.is_transaction_block
               /\ header_block.foliage_transaction_block = None)

get_block_request(start, end) ==
    /\ _block_requests' = LRUGetCache(_block_requests, <<start, end>>)
    /\ UNCHANGED <<_blocks, _ses_requests, _states_validated, _timestamps,
                   _blocks_validated, _block_signatures_validated>>
    /\ Log("get_block_request", <<start, end>>,
                    LRUGetValue(_block_requests, <<start, end>>), FALSE)

add_to_block_requests(start, end, request) ==
    /\ _block_requests' = LRUPut(_block_requests, <<start, end>>, request)
    /\ UNCHANGED <<_blocks, _ses_requests, _states_validated, _timestamps,
                   _blocks_validated, _block_signatures_validated>>
    /\ Log("add_to_block_requests", <<start, end, request>>, None, FALSE)

get_ses_request(height) ==
    /\ _ses_requests' = LRUGetCache(_ses_requests, height)
    /\ UNCHANGED <<_blocks, _block_requests, _states_validated, _timestamps,
                   _blocks_validated, _block_signatures_validated>>
    /\ Log("get_ses_request", height, LRUGetValue(_ses_requests, height), FALSE)

add_to_ses_requests(height, ses) ==
    /\ _ses_requests' = LRUPut(_ses_requests, height, ses)
    /\ UNCHANGED <<_blocks, _block_requests, _states_validated, _timestamps,
                   _blocks_validated, _block_signatures_validated>>
    /\ Log("add_to_ses_requests", <<height, ses>>, None, FALSE)

\* The result of in_states_validated on the cache sv.
InStatesValidated(sv, coin_state_hash) == LRUGetValue(sv, coin_state_hash) # None

in_states_validated(coin_state_hash) ==
    /\ _states_validated' = LRUGetCache(_states_validated, coin_state_hash)
    /\ UNCHANGED <<_blocks, _block_requests, _ses_requests, _timestamps,
                   _blocks_validated, _block_signatures_validated>>
    /\ Log("in_states_validated", coin_state_hash,
                    InStatesValidated(_states_validated, coin_state_hash), FALSE)


\* Mutant: created_height is preferred to spent_height.
ResolvedHeight_CreatedFirst(coin_state) ==
    IF coin_state.created_height # None THEN coin_state.created_height
    ELSE IF coin_state.spent_height # None THEN coin_state.spent_height
    ELSE None

\* cs_height of add_to_states_validated: spent_height, else created_height, else None.
ResolvedHeight(coin_state) ==
    IF coin_state.spent_height # None THEN coin_state.spent_height
    ELSE IF coin_state.created_height # None THEN coin_state.created_height
    ELSE None

add_to_states_validated(coin_state) ==
    /\ _states_validated' = LRUPut(_states_validated, get_hash(coin_state),
                                  ResolvedHeight(coin_state))
    /\ UNCHANGED <<_blocks, _block_requests, _ses_requests, _timestamps,
                   _blocks_validated, _block_signatures_validated>>
    /\ Log("add_to_states_validated", coin_state, None, FALSE)

get_height_timestamp(height) ==
    /\ _timestamps' = LRUGetCache(_timestamps, height)
    /\ UNCHANGED <<_blocks, _block_requests, _ses_requests, _states_validated,
                   _blocks_validated, _block_signatures_validated>>
    /\ Log("get_height_timestamp", height, LRUGetValue(_timestamps, height), FALSE)

\* Mutant: the height of the first add is kept, as for the timestamps.
add_to_blocks_validated_KeepsFirst(reward_chain_hash, height) ==
    /\ _blocks_validated' =
           IF LRUGetValue(_blocks_validated, reward_chain_hash) = None
           THEN LRUPut(_blocks_validated, reward_chain_hash, height)
           ELSE LRUGetCache(_blocks_validated, reward_chain_hash)
    /\ UNCHANGED <<_blocks, _block_requests, _ses_requests, _states_validated, _timestamps,
                   _block_signatures_validated>>
    /\ Log("add_to_blocks_validated", <<reward_chain_hash, height>>, None, FALSE)

add_to_blocks_validated(reward_chain_hash, height) ==
    /\ _blocks_validated' = LRUPut(_blocks_validated, reward_chain_hash, height)
    /\ UNCHANGED <<_blocks, _block_requests, _ses_requests, _states_validated, _timestamps,
                   _block_signatures_validated>>
    /\ Log("add_to_blocks_validated", <<reward_chain_hash, height>>, None, FALSE)

in_blocks_validated(reward_chain_hash) ==
    /\ _blocks_validated' = LRUGetCache(_blocks_validated, reward_chain_hash)
    /\ UNCHANGED <<_blocks, _block_requests, _ses_requests, _states_validated, _timestamps,
                   _block_signatures_validated>>
    /\ Log("in_blocks_validated", reward_chain_hash,
                    LRUGetValue(_blocks_validated, reward_chain_hash) # None, FALSE)

add_to_block_signatures_validated(block) ==
    /\ _block_signatures_validated' =
           LRUPut(_block_signatures_validated, _calculate_sig_hash_from_block(block),
                  block.height)
    /\ UNCHANGED <<_blocks, _block_requests, _ses_requests, _states_validated, _timestamps,
                   _blocks_validated>>
    /\ Log("add_to_block_signatures_validated", block, None, FALSE)

in_block_signatures_validated(block) ==
    /\ _block_signatures_validated' =
           LRUGetCache(_block_signatures_validated, _calculate_sig_hash_from_block(block))
    /\ UNCHANGED <<_blocks, _block_requests, _ses_requests, _states_validated, _timestamps,
                   _blocks_validated>>
    /\ Log("in_block_signatures_validated", block,
                    LRUGetValue(_block_signatures_validated,
                                _calculate_sig_hash_from_block(block)) # None, FALSE)

(***************************************************************************)
(* clear_after_height: each cache is replaced by a new one of the same     *)
(* capacity holding the entries its rule keeps, put in the old order.      *)
(***************************************************************************)

\* Mutant: only the entries at the cutoff itself are kept.
KeepHeightKey_AtCutoff(c, height) ==
    PutAll(LRUCache(c.capacity), SelectSeq(c.cache, LAMBDA kv : kv[1] = height))

\* Mutant: a strict comparison drops the entry at the cutoff itself.
KeepHeightKey_Strict(c, height) ==
    PutAll(LRUCache(c.capacity), SelectSeq(c.cache, LAMBDA kv : kv[1] < height))

KeepHeightKey(c, height) ==
    PutAll(LRUCache(c.capacity), SelectSeq(c.cache, LAMBDA kv : kv[1] <= height))


\* Mutant: the new cache has room for one entry more than the one it replaces.
KeepBlockRequests_Grown(c, height) ==
    PutAll(LRUCache(c.capacity + 1),
           SelectSeq(c.cache, LAMBDA kv : kv[1][1] <= height /\ kv[1][2] <= height))

\* Mutant: only the start of the range is compared with the cutoff.
KeepBlockRequests_StartOnly(c, height) ==
    PutAll(LRUCache(c.capacity), SelectSeq(c.cache, LAMBDA kv : kv[1][1] <= height))

KeepBlockRequests(c, height) ==
    PutAll(LRUCache(c.capacity),
           SelectSeq(c.cache, LAMBDA kv : kv[1][1] <= height /\ kv[1][2] <= height))


\* Mutant: a strict comparison drops the states at the cutoff itself.
KeepStatesValidated_Strict(c, height) ==
    PutAll(LRUCache(c.capacity),
           SelectSeq(c.cache, LAMBDA kv : kv[2] # None /\ kv[2] < height))

\* Mutant: an entry whose stored height is None survives the truncation.
KeepStatesValidated_NoneKept(c, height) ==
    PutAll(LRUCache(c.capacity),
           SelectSeq(c.cache, LAMBDA kv : kv[2] = None \/ kv[2] <= height))

KeepStatesValidated(c, height) ==
    PutAll(LRUCache(c.capacity),
           SelectSeq(c.cache, LAMBDA kv : kv[2] # None /\ kv[2] <= height))


\* Mutant: the cache is reset instead of filtered.
KeepHeightValue_Forgets(c, height) == LRUCache(c.capacity)

\* Mutant: the new cache is one entry smaller than the one it replaces.
KeepHeightValue_Smaller(c, height) ==
    PutAll(LRUCache(c.capacity - 1), SelectSeq(c.cache, LAMBDA kv : kv[2] <= height))

KeepHeightValue(c, height) ==
    PutAll(LRUCache(c.capacity), SelectSeq(c.cache, LAMBDA kv : kv[2] <= height))

clear_after_height(height) ==
    /\ _blocks' = KeepHeightKey(_blocks, height)
    /\ _block_requests' = KeepBlockRequests(_block_requests, height)
    /\ _ses_requests' = KeepHeightKey(_ses_requests, height)
    /\ _states_validated' = KeepStatesValidated(_states_validated, height)
    /\ _timestamps' = KeepHeightKey(_timestamps, height)
    /\ _blocks_validated' = KeepHeightValue(_blocks_validated, height)
    /\ _block_signatures_validated' = KeepHeightValue(_block_signatures_validated, height)
    /\ Log("clear_after_height", height, None, FALSE)

\* The seven caches clear_after_height(height) leaves, given the seven it finds.
Truncated(cs, height) ==
    <<KeepHeightKey(cs[1], height), KeepBlockRequests(cs[2], height),
      KeepHeightKey(cs[3], height), KeepStatesValidated(cs[4], height),
      KeepHeightKey(cs[5], height), KeepHeightValue(cs[6], height),
      KeepHeightValue(cs[7], height)>>

(***************************************************************************)
(* clear_after_height one assignment at a time, and the scheduling of the  *)
(* other tasks of the event loop around it.                                *)
(***************************************************************************)

\* Mutant: preemptive threads without a lock, any call may run at any point.
OtherTaskMayRun_Preemptive(p) == TRUE

\* The event loop is cooperative: another task's call runs only when the running
\* one awaits.  clear_after_height is a plain def, no await between its first and
\* its last assignment, so nothing else runs while a call is under way.
OtherTaskMayRun(p) == p.n = 0

\* The next of the seven assignments of clear_after_height(height); the call
\* returns with the seventh.
clear_after_height_step(height) ==
    /\ pc.n # 0 => height = pc.height
    /\ LET n == pc.n + 1
           removed == [blocks |-> Keys(_blocks) \ Keys(_blocks'),
                       block_requests |-> Keys(_block_requests) \ Keys(_block_requests'),
                       ses_requests |-> Keys(_ses_requests) \ Keys(_ses_requests'),
                       states_validated |->
                           Keys(_states_validated) \ Keys(_states_validated'),
                       timestamps |-> Keys(_timestamps) \ Keys(_timestamps'),
                       blocks_validated |->
                           Keys(_blocks_validated) \ Keys(_blocks_validated'),
                       block_signatures_validated |->
                           Keys(_block_signatures_validated)
                               \ Keys(_block_signatures_validated')]
           dropped == [c \in DOMAIN removed |-> pc.dropped[c] \cup removed[c]]
       IN /\ _blocks' = IF n = 1 THEN KeepHeightKey(_blocks, height) ELSE _blocks
          /\ _block_requests' = IF n = 2 THEN KeepBlockRequests(_block_requests, height)
                                ELSE _block_requests
          /\ _ses_requests' = IF n = 3 THEN KeepHeightKey(_ses_requests, height)
                              ELSE _ses_requests
          /\ _states_validated' = IF n = 4 THEN KeepStatesValidated(_states_validated, height)
                                  ELSE _states_validated
          /\ _timestamps' = IF n = 5 THEN KeepHeightKey(_timestamps, height)
                            ELSE _timestamps
          /\ _blocks_validated' = IF n = 6 THEN KeepHeightValue(_blocks_validated, height)
                                  ELSE _blocks_validated
          /\ _block_signatures_validated' =
                 IF n = 7 THEN KeepHeightValue(_block_signatures_validated, height)
                 ELSE _block_signatures_validated
          /\ IF n = 7
             THEN /\ pc' = NotRunning
                  /\ last' = [op |-> "clear_after_height", arg |-> height, ret |-> None,
                              raised |-> FALSE,
                              prev_cutoff |-> IF last.op = "clear_after_height"
                                              THEN last.arg ELSE None,
                              dropped |-> dropped]
             ELSE /\ pc' = [n |-> n, height |-> height, dropped |-> dropped]
                  /\ UNCHANGED last

(***************************************************************************)
(* can_use_peer_request_cache                                              *)
(***************************************************************************)

\* Mutant: the spent_height test is missing.
CanUse_IgnoresSpent(sv, coin_state, fork_height) ==
    IF ~InStatesValidated(sv, get_hash(coin_state)) THEN FALSE
    ELSE IF fork_height = None THEN TRUE
    ELSE IF coin_state.created_height = None /\ coin_state.spent_height = None THEN FALSE
    ELSE IF coin_state.created_height # None /\ coin_state.created_height > fork_height
         THEN FALSE
    ELSE TRUE

CanUse(sv, coin_state, fork_height) ==
    IF ~InStatesValidated(sv, get_hash(coin_state)) THEN FALSE
    ELSE IF fork_height = None THEN TRUE
    ELSE IF coin_state.created_height = None /\ coin_state.spent_height = None THEN FALSE
    ELSE IF coin_state.created_height # None /\ coin_state.created_height > fork_height
         THEN FALSE
    ELSE IF coin_state.spent_height # None /\ coin_state.spent_height > fork_height
         THEN FALSE
    ELSE TRUE


\* Mutant: an entry found unusable is removed from StatesValidated.
can_use_peer_request_cache_Forgets(coin_state, fork_height) ==
    /\ _states_validated' =
           IF CanUse(_states_validated, coin_state, fork_height)
           THEN LRUGetCache(_states_validated, get_hash(coin_state))
           ELSE [_states_validated EXCEPT
                    !.cache = SelectSeq(@, LAMBDA kv : kv[1] # get_hash(coin_state))]
    /\ UNCHANGED <<_blocks, _block_requests, _ses_requests, _timestamps,
                   _blocks_validated, _block_signatures_validated>>
    /\ Log("can_use_peer_request_cache", <<coin_state, fork_height>>,
           CanUse(_states_validated, coin_state, fork_height), FALSE)

can_use_peer_request_cache(coin_state, fork_height) ==
    /\ _states_validated' = LRUGetCache(_states_validated, get_hash(coin_state))
    /\ UNCHANGED <<_blocks, _block_requests, _ses_requests, _timestamps,
                   _blocks_validated, _block_signatures_validated>>
    /\ Log("can_use_peer_request_cache", <<coin_state, fork_height>>,
                    CanUse(_states_validated, coin_state, fork_height), FALSE)

(***************************************************************************)
(* The whole cache: all seven caches filled and truncated together, over   *)
(* the lowest and the highest height, with the predicate.  The lookups of  *)
(* each cache are in the specifications below; the recency orders they     *)
(* produce are produced here by the puts.                                  *)
(***************************************************************************)
CoreBlocks == {HeaderBlock(h, TRUE, 0, <<1>>, <<1>>, <<1>>) : h \in EdgeHeights}
CoreRanges == {<<0, 0>>, <<0, MaxHeight>>}
CoreCoinStates ==
    {cs \in CoinStates : \/ cs.created_height = None /\ cs.spent_height = None
                         \/ cs.created_height = 0 /\ cs.spent_height \in {None, MaxHeight}}
CoreSigBlocks == {HeaderBlock(h, FALSE, None, <<1>>, <<1>>, <<1>>) : h \in EdgeHeights}

Next ==
    \/ \E b \in CoreBlocks : add_to_blocks(b)
          /\ UNCHANGED <<first_timestamp, given_timestamps, added_heights, pc>>
    \/ \E r \in CoreRanges : add_to_block_requests(r[1], r[2], 11)
          /\ UNCHANGED <<first_timestamp, given_timestamps, added_heights, pc>>
    \/ \E h \in EdgeHeights : add_to_ses_requests(h, 21)
          /\ UNCHANGED <<first_timestamp, given_timestamps, added_heights, pc>>
    \/ \E cs \in CoreCoinStates : add_to_states_validated(cs)
          /\ UNCHANGED <<first_timestamp, given_timestamps, added_heights, pc>>
    \/ \E h \in EdgeHeights : add_to_blocks_validated(31, h)
          /\ UNCHANGED <<first_timestamp, given_timestamps, added_heights, pc>>
    \/ \E b \in CoreSigBlocks : add_to_block_signatures_validated(b)
          /\ UNCHANGED <<first_timestamp, given_timestamps, added_heights, pc>>
    \/ \E cs \in CoreCoinStates, f \in ForkHeights : can_use_peer_request_cache(cs, f)
          /\ UNCHANGED <<first_timestamp, given_timestamps, added_heights, pc>>
    \/ \E h \in Cutoffs : clear_after_height(h)
          /\ UNCHANGED <<first_timestamp, given_timestamps, added_heights, pc>>

Spec == Init /\ [][Next]_vars

(***************************************************************************)
(* StatesValidated and the predicate, over every coin state.               *)
(***************************************************************************)
NextStates ==
    \/ \E cs \in CoinStates : add_to_states_validated(cs)
          /\ UNCHANGED <<first_timestamp, given_timestamps, added_heights, pc>>
    \/ \E cs \in CoinStates : in_states_validated(get_hash(cs))
          /\ UNCHANGED <<first_timestamp, given_timestamps, added_heights, pc>>
    \/ \E cs \in CoinStates, f \in ForkHeights : can_use_peer_request_cache(cs, f)
          /\ UNCHANGED <<first_timestamp, given_timestamps, added_heights, pc>>
    \/ \E h \in Cutoffs : clear_after_height(h)
          /\ UNCHANGED <<first_timestamp, given_timestamps, added_heights, pc>>

SpecStates == Init /\ [][NextStates]_vars

(***************************************************************************)
(* Blocks and Timestamps.  first_timestamp remembers, per height, the      *)
(* timestamp of the first transaction block add_to_blocks was given.       *)
(***************************************************************************)
NextBlocks ==
    \/ \E b \in Blocks :
          /\ add_to_blocks(b)
          /\ first_timestamp' =
                 IF /\ b.is_transaction_block
                    /\ b.foliage_transaction_block # None
                    /\ first_timestamp[b.height] = None
                 THEN [first_timestamp EXCEPT ![b.height] = b.foliage_transaction_block]
                 ELSE first_timestamp
          /\ given_timestamps' =
                 IF b.is_transaction_block /\ b.foliage_transaction_block # None
                 THEN [given_timestamps EXCEPT
                          ![b.height] = @ \cup {b.foliage_transaction_block}]
                 ELSE given_timestamps
          /\ UNCHANGED <<added_heights, pc>>
    \/ \E h \in Heights : get_block(h) /\ UNCHANGED <<first_timestamp, given_timestamps, added_heights, pc>>
    \/ \E h \in Heights : get_height_timestamp(h) /\ UNCHANGED <<first_timestamp, given_timestamps, added_heights, pc>>
    \/ \E h \in Cutoffs : clear_after_height(h) /\ UNCHANGED <<first_timestamp, given_timestamps, added_heights, pc>>

SpecBlocks == Init /\ [][NextBlocks]_vars

(***************************************************************************)
(* BlockRequests and SesRequests.                                          *)
(***************************************************************************)
NextRequests ==
    \/ \E r \in Ranges, t \in Tasks : add_to_block_requests(r[1], r[2], t)
          /\ UNCHANGED <<first_timestamp, given_timestamps, added_heights, pc>>
    \/ \E s \in Heights, e \in Heights : get_block_request(s, e)
          /\ UNCHANGED <<first_timestamp, given_timestamps, added_heights, pc>>
    \/ \E h \in EdgeHeights, ses \in SesInfos : add_to_ses_requests(h, ses)
          /\ UNCHANGED <<first_timestamp, given_timestamps, added_heights, pc>>
    \/ \E h \in Heights : get_ses_request(h)
          /\ UNCHANGED <<first_timestamp, given_timestamps, added_heights, pc>>
    \/ \E h \in Cutoffs : clear_after_height(h)
          /\ UNCHANGED <<first_timestamp, given_timestamps, added_heights, pc>>

SpecRequests == Init /\ [][NextRequests]_vars

(***************************************************************************)
(* BlocksValidated and BlockSignaturesValidated.                           *)
(***************************************************************************)
NextValidated ==
    \/ \E hh \in RewardChainHashes, h \in EdgeHeights : add_to_blocks_validated(hh, h)
          /\ UNCHANGED <<first_timestamp, given_timestamps, added_heights, pc>>
    \/ \E hh \in RewardChainHashes : in_blocks_validated(hh)
          /\ UNCHANGED <<first_timestamp, given_timestamps, added_heights, pc>>
    \/ \E b \in SigBlocks : add_to_block_signatures_validated(b)
          /\ UNCHANGED <<first_timestamp, given_timestamps, added_heights, pc>>
    \/ \E b \in SigBlocks : in_block_signatures_validated(b)
          /\ UNCHANGED <<first_timestamp, given_timestamps, added_heights, pc>>
    \/ \E h \in Cutoffs : clear_after_height(h)
          /\ UNCHANGED <<first_timestamp, given_timestamps, added_heights, pc>>

SpecValidated == Init /\ [][NextValidated]_vars

(***************************************************************************)
(* BlocksValidated and BlockSignaturesValidated with the history of the    *)
(* adds: added_heights[k] is the heights of the last two adds of the key k. *)
(***************************************************************************)
LastTwo(s) == IF Len(s) > 2 THEN Tail(s) ELSE s

NextReadd ==
    \/ \E hh \in RewardChainHashes, h \in EdgeHeights :
          /\ add_to_blocks_validated(hh, h)
          /\ added_heights' = [added_heights EXCEPT ![hh] = LastTwo(Append(@, h))]
          /\ UNCHANGED <<first_timestamp, given_timestamps, pc>>
    \/ \E hh \in RewardChainHashes : in_blocks_validated(hh)
          /\ UNCHANGED <<first_timestamp, given_timestamps, added_heights, pc>>
    \/ \E b \in CoreSigBlocks :
          /\ add_to_block_signatures_validated(b)
          /\ added_heights' =
                 [added_heights EXCEPT ![_calculate_sig_hash_from_block(b)] =
                                           LastTwo(Append(@, b.height))]
          /\ UNCHANGED <<first_timestamp, given_timestamps, pc>>
    \/ \E b \in CoreSigBlocks : in_block_signatures_validated(b)
          /\ UNCHANGED <<first_timestamp, given_timestamps, added_heights, pc>>
    \/ \E h \in Cutoffs : clear_after_height(h)
          /\ UNCHANGED <<first_timestamp, given_timestamps, added_heights, pc>>

SpecReadd == Init /\ [][NextReadd]_vars

(***************************************************************************)
(* The tasks of the event loop: calls on Blocks, StatesValidated and       *)
(* BlocksValidated, the predicate, and clear_after_height running one      *)
(* assignment at a time.                                                   *)
(***************************************************************************)
NextSteps ==
    \/ \E b \in CoreBlocks : OtherTaskMayRun(pc) /\ add_to_blocks(b)
          /\ UNCHANGED <<first_timestamp, given_timestamps, added_heights, pc>>
    \/ \E h \in Heights : OtherTaskMayRun(pc) /\ get_block(h)
          /\ UNCHANGED <<first_timestamp, given_timestamps, added_heights, pc>>
    \/ \E cs \in CoreCoinStates : OtherTaskMayRun(pc) /\ add_to_states_validated(cs)
          /\ UNCHANGED <<first_timestamp, given_timestamps, added_heights, pc>>
    \/ \E cs \in CoreCoinStates, f \in ForkHeights :
          OtherTaskMayRun(pc) /\ can_use_peer_request_cache(cs, f)
          /\ UNCHANGED <<first_timestamp, given_timestamps, added_heights, pc>>
    \/ \E h \in EdgeHeights : OtherTaskMayRun(pc) /\ add_to_blocks_validated(31, h)
          /\ UNCHANGED <<first_timestamp, given_timestamps, added_heights, pc>>
    \/ OtherTaskMayRun(pc) /\ in_blocks_validated(31)
          /\ UNCHANGED <<first_timestamp, given_timestamps, added_heights, pc>>
    \/ \E h \in Cutoffs : clear_after_height_step(h)
          /\ UNCHANGED <<first_timestamp, given_timestamps, added_heights>>

SpecSteps == Init /\ [][NextSteps]_vars

(***************************************************************************)
(* Claims.                                                                 *)
(***************************************************************************)
\* C1: right after clear_after_height(h) no cache holds anything above h: the keys
\* of Blocks, SesRequests and Timestamps are <= h, both ends of every BlockRequests
\* key are <= h, every height stored in StatesValidated, BlocksValidated and
\* BlockSignaturesValidated is not None and <= h; so the three height lookups find
\* nothing for a height above h.
C1_NothingAboveCutoff ==
    last.op = "clear_after_height" =>
        /\ \A k \in Keys(_blocks) \cup Keys(_ses_requests) \cup Keys(_timestamps) :
               k <= last.arg
        /\ \A k \in Keys(_block_requests) : k[1] <= last.arg /\ k[2] <= last.arg
        /\ \A kv \in Contents(_states_validated) \cup Contents(_blocks_validated)
                         \cup Contents(_block_signatures_validated) :
               kv[2] # None /\ kv[2] <= last.arg
        /\ \A k \in Heights :
               k > last.arg => /\ ~HasKey(_blocks, k)
                               /\ LRUGetValue(_ses_requests, k) = None
                               /\ LRUGetValue(_timestamps, k) = None

\* C1 witness: a truncation at height 0 that removed entries from all seven caches
\* and kept an entry in each of the five that had one at height 0 as well.
C1_Witness ==
    /\ last.op = "clear_after_height" /\ last.arg = 0
    /\ \A n \in DOMAIN last.dropped : last.dropped[n] # {}
    /\ _blocks.cache # <<>> /\ _block_requests.cache # <<>> /\ _ses_requests.cache # <<>>
    /\ _states_validated.cache # <<>> /\ _timestamps.cache # <<>>

\* C2: clear_after_height(c) keeps what is at or below c: every entry of Blocks,
\* SesRequests, Timestamps (by key) and BlocksValidated (by stored height) that is
\* <= c before the call is there with the same value after it; and for h1 < h2 both
\* in Blocks, after clear_after_height(h1) h2 is gone and h1 holds the same block.
C2_KeepsAtOrBelowCutoff ==
    [][last'.op = "clear_after_height" =>
         /\ \A kv \in Contents(_blocks) :
                kv[1] <= last'.arg => kv \in Contents(_blocks')
         /\ \A kv \in Contents(_ses_requests) :
                kv[1] <= last'.arg => kv \in Contents(_ses_requests')
         /\ \A kv \in Contents(_timestamps) :
                kv[1] <= last'.arg => kv \in Contents(_timestamps')
         /\ \A kv \in Contents(_blocks_validated) :
                kv[2] <= last'.arg => kv \in Contents(_blocks_validated')
         /\ \A h1 \in Heights, h2 \in Heights :
                (h1 < h2 /\ HasKey(_blocks, h1) /\ HasKey(_blocks, h2) /\ last'.arg = h1)
                    => /\ ~HasKey(_blocks', h2)
                       /\ HasKey(_blocks', h1)
                       /\ Lookup(_blocks', h1) = Lookup(_blocks, h1)]_vars

\* C2 witness: a truncation at 0 that removed height MaxHeight from Blocks,
\* SesRequests and Timestamps, kept height 0 in each, and kept the BlocksValidated
\* entry.
C2_Witness ==
    /\ last.op = "clear_after_height" /\ last.arg = 0
    /\ last.dropped.blocks = {MaxHeight} /\ HasKey(_blocks, 0)
    /\ last.dropped.ses_requests = {MaxHeight} /\ HasKey(_ses_requests, 0)
    /\ last.dropped.timestamps = {MaxHeight} /\ HasKey(_timestamps, 0)
    /\ _blocks_validated.cache # <<>>

\* C10: clear_after_height is idempotent: a clear_after_height(h) made right after
\* a clear_after_height(h) leaves the contents of all seven caches as they were.
C10_Idempotent ==
    [][(last'.op = "clear_after_height" /\ last'.prev_cutoff = last'.arg) =>
         /\ Contents(_blocks') = Contents(_blocks)
         /\ Contents(_block_requests') = Contents(_block_requests)
         /\ Contents(_ses_requests') = Contents(_ses_requests)
         /\ Contents(_states_validated') = Contents(_states_validated)
         /\ Contents(_timestamps') = Contents(_timestamps)
         /\ Contents(_blocks_validated') = Contents(_blocks_validated)
         /\ Contents(_block_signatures_validated') = Contents(_block_signatures_validated)]_vars

\* C10 witness: the second of two truncations at 0, with entries left in the caches.
C10_Witness ==
    /\ last.op = "clear_after_height" /\ last.arg = 0 /\ last.prev_cutoff = 0
    /\ _blocks.cache # <<>> /\ _block_requests.cache # <<>> /\ _ses_requests.cache # <<>>
    /\ _states_validated.cache # <<>> /\ _timestamps.cache # <<>>
    /\ _blocks_validated.cache # <<>> /\ _block_signatures_validated.cache # <<>>

\* The coin states with both heights absent, and created at 0 and spent at MaxHeight.
CoinStateNoHeights == [coin |-> 7, created_height |-> None, spent_height |-> None]
CoinStateSpentLate == [coin |-> 7, created_height |-> 0, spent_height |-> MaxHeight]

\* C3: for a coin state cs in StatesValidated, after clear_after_height(c)
\* in_states_validated(cs.hash) is true exactly when the resolved height of cs
\* (spent_height if present, else created_height if present, else none) is not none
\* and <= c.
C3_StatesTruncatedByResolvedHeight ==
    [][last'.op = "clear_after_height" =>
         \A cs \in CoinStates :
             HasKey(_states_validated, get_hash(cs)) =>
                 LET resolved == IF cs.spent_height # None THEN cs.spent_height
                                 ELSE cs.created_height
                 IN InStatesValidated(_states_validated', get_hash(cs))
                        <=> (resolved # None /\ resolved <= last'.arg)]_vars

\* C3 witness: a truncation at 0 that dropped the entry without heights and the
\* entry created at 0 and spent above 0.
C3_Witness ==
    /\ last.op = "clear_after_height" /\ last.arg = 0
    /\ last.dropped.states_validated =
           {get_hash(CoinStateNoHeights), get_hash(CoinStateSpentLate)}

\* C4: a coin state that was added and is still a key of StatesValidated is reported
\* as validated, whatever height (none included) is stored for it, and only a hash
\* that is not a key is reported as not validated.
C4_KeyPresentIsValidated ==
    last.op = "in_states_validated" =>
        (last.ret <=> HasKey(_states_validated, last.arg))

\* C5: without a fork height the predicate is true exactly for the coin states whose
\* hash is a key of StatesValidated, whatever height is stored for it.
C5_NoForkFollowsKey ==
    (last.op = "can_use_peer_request_cache" /\ last.arg[2] = None) =>
        (last.ret <=> HasKey(_states_validated, get_hash(last.arg[1])))

\* C6: with a fork height f the predicate is true exactly when the coin state is a
\* key of StatesValidated, has at least one of its two heights, and has no height
\* above f.
C6_ForkDecision ==
    (last.op = "can_use_peer_request_cache" /\ last.arg[2] # None) =>
        LET cs == last.arg[1]
            f == last.arg[2]
        IN last.ret <=>
               /\ HasKey(_states_validated, get_hash(cs))
               /\ cs.created_height # None \/ cs.spent_height # None
               /\ cs.created_height = None \/ cs.created_height <= f
               /\ cs.spent_height = None \/ cs.spent_height <= f

\* C6 witness: a cached coin state created at 0 and spent above the fork height 0
\* was refused.
C6_Witness ==
    /\ last.op = "can_use_peer_request_cache"
    /\ last.arg = <<CoinStateSpentLate, 0>>
    /\ HasKey(_states_validated, get_hash(CoinStateSpentLate))
    /\ last.ret = FALSE

\* C7 as claimed: a call of can_use_peer_request_cache leaves the whole state of the
\* seven caches, recency order included, as it was.
C7_CachesUntouched ==
    [][last'.op = "can_use_peer_request_cache" => caches' = caches]_vars

\* C7 amended: a call of can_use_peer_request_cache adds, removes and changes no
\* entry; six caches are left as they were, and in StatesValidated the entries
\* other than the one looked up keep their order while the one looked up, if
\* present, becomes the most recently used.
C7_OnlyRecencyOfLookedUpEntry ==
    [][last'.op = "can_use_peer_request_cache" =>
         LET key == get_hash(last'.arg[1])
         IN /\ UNCHANGED <<_blocks, _block_requests, _ses_requests, _timestamps,
                           _blocks_validated, _block_signatures_validated>>
            /\ _states_validated'.capacity = _states_validated.capacity
            /\ Contents(_states_validated') = Contents(_states_validated)
            /\ SelectSeq(_states_validated'.cache, LAMBDA kv : kv[1] # key)
                   = SelectSeq(_states_validated.cache, LAMBDA kv : kv[1] # key)
            /\ HasKey(_states_validated, key) =>
                   _states_validated'.cache[Len(_states_validated'.cache)][1] = key]_vars

\* C7 witness: the predicate was just asked about a coin state that is the most
\* recent of two StatesValidated entries, with entries in the six other caches.
C7_Witness ==
    /\ last.op = "can_use_peer_request_cache"
    /\ Len(_states_validated.cache) = 2
    /\ _states_validated.cache[2][1] = get_hash(last.arg[1])
    /\ _blocks.cache # <<>> /\ _block_requests.cache # <<>> /\ _ses_requests.cache # <<>>
    /\ _timestamps.cache # <<>> /\ _blocks_validated.cache # <<>>
    /\ _block_signatures_validated.cache # <<>>

\* C8 as claimed: after add_to_blocks with a transaction block whose timestamp
\* differs from the one the first transaction block of that height carried,
\* get_height_timestamp of that height is the first one.
C8_FirstTimestampAlways ==
    (/\ last.op = "add_to_blocks"
     /\ last.arg.is_transaction_block
     /\ last.arg.foliage_transaction_block # None
     /\ first_timestamp[last.arg.height] # last.arg.foliage_transaction_block)
        => LRUGetValue(_timestamps, last.arg.height) = first_timestamp[last.arg.height]

\* C8 amended: add_to_blocks never replaces a timestamp that Timestamps holds:
\* when the height of the block is a key of Timestamps at the call,
\* get_height_timestamp of that height is the same after the call as before it.
C8_HeldTimestampKept ==
    [][(last'.op = "add_to_blocks" /\ HasKey(_timestamps, last'.arg.height)) =>
         LRUGetValue(_timestamps', last'.arg.height)
             = LRUGetValue(_timestamps, last'.arg.height)]_vars

\* C8 witness: a transaction block was just added and Timestamps holds another
\* timestamp than the block's for its height.
C8_Witness ==
    /\ last.op = "add_to_blocks"
    /\ last.arg.is_transaction_block
    /\ last.arg.foliage_transaction_block # None
    /\ HasKey(_timestamps, last.arg.height)
    /\ Lookup(_timestamps, last.arg.height) # last.arg.foliage_transaction_block

\* C9: clear_after_height(c) keeps a BlockRequests entry (s, e), with its handle,
\* exactly when s <= c and e <= c.
C9_RequestsKeptWhenBothEndsBelow ==
    [][last'.op = "clear_after_height" =>
         \A s \in Heights, e \in Heights :
             HasKey(_block_requests, <<s, e>>) =>
                 IF s <= last'.arg /\ e <= last'.arg
                 THEN /\ HasKey(_block_requests', <<s, e>>)
                      /\ LRUGetValue(_block_requests', <<s, e>>)
                             = LRUGetValue(_block_requests, <<s, e>>)
                 ELSE LRUGetValue(_block_requests', <<s, e>>) = None]_vars

\* C9 witness: a truncation at 0 dropped the request (0, MaxHeight) and kept (0, 0).
C9_Witness ==
    /\ last.op = "clear_after_height" /\ last.arg = 0
    /\ last.dropped.block_requests = {<<0, MaxHeight>>}
    /\ HasKey(_block_requests, <<0, 0>>)

\* Cache i of the seven (in the order clear_after_height replaces them) holds an
\* entry above the height h.
HoldsAbove(i, h) ==
    CASE i = 1 -> \E k \in Keys(_blocks) : k > h
      [] i = 2 -> \E k \in Keys(_block_requests) : k[1] > h \/ k[2] > h
      [] i = 3 -> \E k \in Keys(_ses_requests) : k > h
      [] i = 4 -> \E kv \in Contents(_states_validated) : kv[2] # None /\ kv[2] > h
      [] i = 5 -> \E k \in Keys(_timestamps) : k > h
      [] i = 6 -> \E kv \in Contents(_blocks_validated) : kv[2] > h
      [] i = 7 -> \E kv \in Contents(_block_signatures_validated) : kv[2] > h

\* Some caches are already truncated to the cutoff of the call under way and
\* another still holds an entry above it.
PartlyTruncated ==
    /\ pc.n \in 1..6
    /\ \E i \in (pc.n + 1)..7 : HoldsAbove(i, pc.height)

\* C11: clear_after_height is observed atomically under the cooperative scheduling:
\* every step that is not one of its own assignments (another task's accessor call
\* or can_use_peer_request_cache call) is taken when no call is between its first
\* and its last replacement, so never in a state where some caches are truncated
\* to the cutoff and others still hold entries above it.
C11_TruncationObservedAtomically ==
    [][pc' = pc => (pc.n = 0 /\ ~PartlyTruncated)]_vars

\* C11 witness: a clear_after_height call is under way, Blocks is truncated and
\* lost an entry, StatesValidated and BlocksValidated still hold entries above the
\* cutoff.
C11_Witness ==
    /\ PartlyTruncated
    /\ pc.dropped.blocks # {}
    /\ HoldsAbove(4, pc.height) /\ HoldsAbove(6, pc.height)

\* Every height key, range end and stored height of the seven caches is below h.
EverythingBelow(h) == \A i \in 1..7 : ~HoldsAbove(i, h - 1)

\* C12 as claimed: clear_after_height with a cutoff above every height key, range
\* end and stored height of the seven caches leaves each cache with exactly the
\* keys and values it had.
C12_NoOpAboveEverything ==
    [][(last'.op = "clear_after_height" /\ EverythingBelow(last'.arg)) =>
         /\ Contents(_blocks') = Contents(_blocks)
         /\ Contents(_block_requests') = Contents(_block_requests)
         /\ Contents(_ses_requests') = Contents(_ses_requests)
         /\ Contents(_states_validated') = Contents(_states_validated)
         /\ Contents(_timestamps') = Contents(_timestamps)
         /\ Contents(_blocks_validated') = Contents(_blocks_validated)
         /\ Contents(_block_signatures_validated') = Contents(_block_signatures_validated)]_vars

\* C12 amended: with such a cutoff the six other caches keep exactly their keys and
\* values, and StatesValidated keeps exactly its entries with a stored height: an
\* entry stored without a height is dropped by every truncation, so the call is a
\* no-op only when StatesValidated holds no such entry.
C12_NoOpExceptStatesWithoutHeight ==
    [][(last'.op = "clear_after_height" /\ EverythingBelow(last'.arg)) =>
         /\ Contents(_blocks') = Contents(_blocks)
         /\ Contents(_block_requests') = Contents(_block_requests)
         /\ Contents(_ses_requests') = Contents(_ses_requests)
         /\ Contents(_states_validated')
                = {kv \in Contents(_states_validated) : kv[2] # None}
         /\ Contents(_timestamps') = Contents(_timestamps)
         /\ Contents(_blocks_validated') = Contents(_blocks_validated)
         /\ Contents(_block_signatures_validated') = Contents(_block_signatures_validated)]_vars

\* C12 witness: a truncation at MaxHeight of seven caches that each held entries,
\* all below MaxHeight: nothing was removed but the StatesValidated entry without
\* a height.
C12_Witness ==
    /\ last.op = "clear_after_height" /\ last.arg = MaxHeight
    /\ last.dropped = [NothingDropped EXCEPT
                          !.states_validated = {get_hash(CoinStateNoHeights)}]
    /\ EverythingBelow(MaxHeight)
    /\ \A i \in 1..7 : caches[i].cache # <<>>

\* Two blocks with the same proof-of-space public key, foliage block data and
\* foliage block-data signature.
SameSignedFields(b1, b2) ==
    /\ b1.plot_public_key = b2.plot_public_key
    /\ b1.foliage_block_data = b2.foliage_block_data
    /\ b1.foliage_block_data_signature = b2.foliage_block_data_signature

\* C13: signature validation is keyed by the three signed fields and not by the
\* height: in_block_signatures_validated(b2) is true exactly when the cache holds
\* the entry some add_to_block_signatures_validated(b1) wrote (the fingerprint of
\* b1 with b1's height) for a block b1 with the three fields of b2, whatever the
\* height of b2; it is false when no held entry comes from such a block.
C13_SignatureKeyedByFields ==
    last.op = "in_block_signatures_validated" =>
        (last.ret <=>
            \E b1 \in SigBlocks :
                /\ SameSignedFields(b1, last.arg)
                /\ <<_calculate_sig_hash_from_block(b1), b1.height>>
                       \in Contents(_block_signatures_validated))

\* C13 witness: a block was just found validated through the entry that a block
\* of another height wrote, while the cache holds a second entry.
C13_Witness ==
    /\ last.op = "in_block_signatures_validated" /\ last.ret = TRUE
    /\ \E b1 \in SigBlocks :
           /\ SameSignedFields(b1, last.arg) /\ b1.height # last.arg.height
           /\ <<_calculate_sig_hash_from_block(b1), b1.height>>
                  \in Contents(_block_signatures_validated)
    /\ Len(_block_signatures_validated.cache) = 2

\* add_to_blocks was given a transaction block without foliage_transaction_block.
MalformedBlock(b) == b.is_transaction_block /\ b.foliage_transaction_block = None

\* C14: add_to_blocks with a block that claims to be a transaction block and has no
\* foliage_transaction_block fails its assertion and records no timestamp:
\* get_height_timestamp of the block's height returns after the call what it
\* returned before, and Timestamps is as it was.
C14_MalformedBlockRejected ==
    [][(last'.op = "add_to_blocks" /\ MalformedBlock(last'.arg)) =>
         /\ last'.raised
         /\ LRUGetValue(_timestamps', last'.arg.height)
                = LRUGetValue(_timestamps, last'.arg.height)
         /\ _timestamps' = _timestamps]_vars

\* C14 witness: add_to_blocks just failed on such a block, at a height without a
\* timestamp while Timestamps holds one for another height.
C14_Witness ==
    /\ last.op = "add_to_blocks" /\ MalformedBlock(last.arg) /\ last.raised
    /\ LRUGetValue(_timestamps, last.arg.height) = None
    /\ _timestamps.cache # <<>>

\* C15: timestamps are recorded only for transaction blocks: whenever
\* get_height_timestamp(h) would return a timestamp t, an earlier add_to_blocks was
\* given a transaction block of height h with the timestamp t; and add_to_blocks
\* with a block that is not a transaction block adds and changes no Timestamps
\* entry.
C15_TimestampsOnlyFromTransactionBlocks ==
    /\ [](\A h \in Heights :
             LRUGetValue(_timestamps, h) # None
                 => LRUGetValue(_timestamps, h) \in given_timestamps[h])
    /\ [][(last'.op = "add_to_blocks" /\ ~last'.arg.is_transaction_block)
              => _timestamps' = _timestamps]_vars

\* C15 witness: a block that is not a transaction block and carries a timestamp
\* was just added at a height whose recorded timestamp is another one, the second
\* of the two that transaction blocks of that height have carried.
C15_Witness ==
    /\ last.op = "add_to_blocks" /\ ~last.arg.is_transaction_block
    /\ last.arg.foliage_transaction_block # None
    /\ LRUGetValue(_timestamps, last.arg.height) \notin
           {None, last.arg.foliage_transaction_block, first_timestamp[last.arg.height]}
    /\ Cardinality(given_timestamps[last.arg.height]) = 2

\* C16: every cache stays bounded by its fixed capacity across adds and
\* truncations: Blocks, BlockRequests and SesRequests have the capacity
\* SmallCapacity (100) and StatesValidated, Timestamps, BlocksValidated and
\* BlockSignaturesValidated the capacity LargeCapacity (1000) in every reachable
\* state, so also after clear_after_height has replaced them, and none holds more
\* entries than its capacity or holds a key twice.
C16_CachesBounded ==
    /\ \A i \in 1..3 : caches[i].capacity = SmallCapacity
    /\ \A i \in 4..7 : caches[i].capacity = LargeCapacity
    /\ \A i \in 1..7 : /\ Len(caches[i].cache) <= caches[i].capacity
                        /\ Cardinality(Keys(caches[i])) = Len(caches[i].cache)

\* C16 witness: add_to_states_validated just evicted an entry from the full
\* StatesValidated while Blocks, BlockRequests and SesRequests are full as well.
C16_Witness ==
    /\ last.op = "add_to_states_validated"
    /\ last.dropped.states_validated # {}
    /\ Len(_states_validated.cache) = LargeCapacity
    /\ \A i \in 1..3 : Len(caches[i].cache) = SmallCapacity

\* A coin state that is not spent before it is created.
HeightsInOrder(cs) ==
    (cs.created_height # None /\ cs.spent_height # None)
        => cs.created_height <= cs.spent_height

CoinStateCreatedEarly == [coin |-> 7, created_height |-> 0, spent_height |-> None]

\* C17: the predicate and the truncation agree on what a reorg at height h
\* invalidates: for every coin state whose created_height is <= its spent_height
\* when both are present, can_use_peer_request_cache with the fork height h just
\* before clear_after_height(h) is true exactly when in_states_validated of its
\* hash is true just after; and for every coin state, one the predicate accepts
\* under h is not dropped by clear_after_height(h).
C17_PredicateAgreesWithTruncation ==
    [][last'.op = "clear_after_height" =>
         \A cs \in CoinStates :
             /\ HeightsInOrder(cs) =>
                    (CanUse(_states_validated, cs, last'.arg)
                        <=> InStatesValidated(_states_validated', get_hash(cs)))
             /\ CanUse(_states_validated, cs, last'.arg)
                    => InStatesValidated(_states_validated', get_hash(cs))]_vars

\* C17 witness: a truncation at 0 dropped the state created at 0 and spent above
\* 0, which the predicate refuses under the fork height 0, and kept the state
\* created at 0 and unspent, which it accepts.
C17_Witness ==
    /\ last.op = "clear_after_height" /\ last.arg = 0
    /\ last.dropped.states_validated = {get_hash(CoinStateSpentLate)}
    /\ ~CanUse(_states_validated, CoinStateSpentLate, 0)
    /\ CanUse(_states_validated, CoinStateCreatedEarly, 0)

Min(a, b) == IF a <= b THEN a ELSE b

\* For the cache c and its keep rule Keep of clear_after_height: truncating at a
\* and then at another cutoff b leaves the contents that truncating once at
\* min(a, b) leaves; so, min being symmetric, the two orders leave the same.
Composes(Keep(_, _), c) ==
    \A a \in Cutoffs : \A b \in Cutoffs \ {a} :
        Contents(Keep(Keep(c, a), b)) = Contents(Keep(c, Min(a, b)))

\* C18: successive truncations compose to the lowest cutoff: from every reachable
\* state and for all cutoffs a and b, clear_after_height(a) followed by
\* clear_after_height(b) leaves each of the seven caches with the contents that a
\* single clear_after_height(min(a, b)) leaves, and that the two calls in the
\* opposite order leave (for a = b this is the idempotence of C10); and every
\* clear_after_height step is that truncation of the seven caches.
C18_TruncationsCompose ==
    /\ [](/\ Composes(KeepHeightKey, _blocks)
          /\ Composes(KeepBlockRequests, _block_requests)
          /\ Composes(KeepHeightKey, _ses_requests)
          /\ Composes(KeepStatesValidated, _states_validated)
          /\ Composes(KeepHeightKey, _timestamps)
          /\ Composes(KeepHeightValue, _blocks_validated)
          /\ Composes(KeepHeightValue, _block_signatures_validated))
    /\ [][last'.op = "clear_after_height" => caches' = Truncated(caches, last'.arg)]_vars

\* C18 witness: clear_after_height(0) right after clear_after_height(MaxHeight),
\* the second call removing entries from all seven caches and leaving some.
C18_Witness ==
    /\ last.op = "clear_after_height" /\ last.arg = 0 /\ last.prev_cutoff = MaxHeight
    /\ \A n \in DOMAIN last.dropped : last.dropped[n] # {}
    /\ _blocks.cache # <<>> /\ _states_validated.cache # <<>>

\* The height of the most recent add of the key k.
LatestAdded(k) == added_heights[k][Len(added_heights[k])]

\* C19: for BlocksValidated and BlockSignaturesValidated the height that decides
\* the truncation is the height of the most recent add of the key: an entry held
\* at clear_after_height(c) is kept, with that height, exactly when the height of
\* the most recent add of its key is <= c, whatever the height of an earlier add;
\* a key whose most recent add was above c is reported as not validated after
\* the call.
C19_LatestAddDecides ==
    [][last'.op = "clear_after_height" =>
         /\ \A k \in Keys(_blocks_validated) :
                /\ LRUGetValue(_blocks_validated', k) # None <=> LatestAdded(k) <= last'.arg
                /\ HasKey(_blocks_validated', k)
                       => Lookup(_blocks_validated', k) = LatestAdded(k)
         /\ \A k \in Keys(_block_signatures_validated) :
                /\ LRUGetValue(_block_signatures_validated', k) # None
                       <=> LatestAdded(k) <= last'.arg
                /\ HasKey(_block_signatures_validated', k)
                       => Lookup(_block_signatures_validated', k) = LatestAdded(k)]_vars

\* C19 witness: a truncation at 0 dropped a reward-chain hash and a signature
\* fingerprint that were each added first at height 0 and then at MaxHeight.
C19_Witness ==
    /\ last.op = "clear_after_height" /\ last.arg = 0
    /\ \E k \in last.dropped.blocks_validated : added_heights[k] = <<0, MaxHeight>>
    /\ \E k \in last.dropped.block_signatures_validated :
           added_heights[k] = <<0, MaxHeight>>

\* C20: a rejected add_to_blocks changes nothing: when add_to_blocks fails its
\* assertion, all seven caches, Blocks included, hold exactly the entries they
\* held before the call, so get_block of the block's height returns what it
\* returned before.
C20_RejectedAddChangesNothing ==
    [][(last'.op = "add_to_blocks" /\ last'.raised) =>
         /\ \A i \in 1..7 : Contents(caches'[i]) = Contents(caches[i])
         /\ HasKey(_blocks', last'.arg.height) <=> HasKey(_blocks, last'.arg.height)]_vars

====
